---- MODULE Spec2Model ----
(***************************************************************************)
(* The streaming photon-to-voxel pipeline of rpysight: the event           *)
(* dispatcher, the framing state machine (line_count, lines_vec, the       *)
(* snake's frame origin), the carry of events across frame boundaries and  *)
(* the acquisition loop with its render/serialize cadence.                 *)
(*                                                                         *)
(* The processing thread is modelled step by step: one step of a find_map  *)
(* closure (one event), one read of the source, one statement group of the *)
(* outer loop.  An iterator over events is its not yet yielded suffix.     *)
(***************************************************************************)
EXTENDS Integers, Sequences, FiniteSets, TLC

\* ------------------------------------------------------------------ bounds
\* Batches the source delivers before it reports the end of the stream.
MaxBatches == 2
\* Rows of one batch.
MaxBatchLen == 2
\* Event times are drawn from 0..MaxTime.
MaxTime == 1
\* rows_per_frame is drawn from 1..MaxRows.
MaxRows == 2
\* rolling_avg is drawn from 1..MaxRollingAvg.
MaxRollingAvg == 2
\* The `steps` of start_acq_loop_for are drawn from 1..MaxSteps.
MaxSteps == 2
\* Rows of an EventStream that is iterated on its own.
MaxStreamRows == 3
\* Calls of next() that an iterator on its own answers with None.
MaxNones == 2
\* Calls of start_acq_loop_for on the same AppState.
MaxCalls == 2
\* Batches the tagger publishes.
MaxPublished == 3

\* ----------------------------------------------------------- configuration
\* The width of the frame window of the snake, in time units: a photon at
\* offset >= FrameWindow from the frame origin is beyond the frame.
FrameWindow == 1

\* Index of the merged channel in FrameBuffers (SUPPORTED_SPECTRAL_CHANNELS).
MergeIdx == 4

\* Inputs: total mapping from a channel number to its DataType.  PMT1 is on
\* channel 1 and the line signal on channel 2, as in scenario S1.
inputs_get(channel) ==
    CASE channel = 1 -> "Pmt1"
      [] channel = 2 -> "Line"
      [] channel = 3 -> "Frame"
      [] channel = 4 -> "Pmt2"
      [] channel = 5 -> "TagLens"
      [] OTHER -> "Invalid"

\* The channel numbers the source produces: the assigned ones and two that
\* no input is assigned to, one negative and one positive.
Channels == {1, 2, 3, 4, 5} \cup {-1, 99}
Times == 0..MaxTime

\* The values of an Event: type_, channel, time (missed_event is never read).
EventVals == [type_ : {0, 1}, channel : Channels, time : Times]

\* ------------------------------------------------------------------- state
VARIABLES
    pc,                     \* position of the processing thread
    data_stream,            \* "none" | "open" | "finished"
    acquisitions,           \* how each call of acquire_stream_filehandle or
                            \* acquire_filehandle has gone: "opened",
                            \* "kept" or "error"
    n_supplied,             \* events delivered by the source so far
    events_iter,            \* the iterator in use: the source positions of
                            \* the events it has not yielded yet
    events_after_newframe,  \* Option<Vec<Event>>: [some, ev], ev the source
                            \* positions of the events of the vector
    adv_caller,             \* who called advance_till_first_frame_line
    rows_per_frame,
    rolling_avg,
    line_count,
    lines_vec,
    frame_origin,           \* the snake's frame origin
    frame_buffers,
    batch_readout_count,
    frame_number,
    queue,                  \* snapshots sent to the serializer
    n_renders,              \* calls of render() on the merged channel
    calls,                  \* the calls on the renderer of the merged
                            \* channel in the last render step, in order
    n_should_close,         \* evaluations of should_close()
    should_close,
    outcome,                \* ProcessedEvent of the last dispatched event
    fresh,                  \* the last step of the thread has taken an event
    last_event,             \* that event (after later steps only its id)
    prev,                   \* the state that event has found
    last_op,                \* how the last event was taken: "dispatch",
                            \* "pass" (scanned over), "sync" (scanned and
                            \* synchronised on), "none" before the first
    scanned,                \* events the running (or last) call of
                            \* advance_till_first_frame_line has scanned
    opened_by,              \* what opened the current frame
    lines_in_frame,         \* Line events of the current frame
    sender,                 \* the sending end of the channel to the
                            \* serializer: "none" | "alive" | "dropped"
    chan,                   \* the snapshots in the channel, oldest first
    ser_state,              \* the serializer thread: "none" | "running" |
                            \* "ended" | "failed"
    serialized,             \* the snapshots the serializer has received
    steps,                  \* the `steps` of start_acq_loop_for, 0 in
                            \* start_inf_acq_loop
    last_item,              \* the item the source has yielded to the last
                            \* read of the thread
    it,                     \* an iterator over an EventStream on its own
    tagger,                 \* the batches the tagger has published, the
                            \* last one being the one its attributes show
    prod_pc,                \* the attribute send_arrays_over_ffi reads next,
                            \* or "send"
    previous_begin_time,
    current_begin_time,
    cols,                   \* the columns send_arrays_over_ffi has read
    ffi_sent                \* the EventStreams it has sent, in order

vars == <<pc, data_stream, acquisitions, n_supplied, events_iter,
          events_after_newframe, adv_caller, rows_per_frame, rolling_avg,
          line_count, lines_vec, frame_origin, frame_buffers,
          batch_readout_count, frame_number, queue, n_renders, calls,
          n_should_close, should_close,
          outcome, last_event, last_op, prev, fresh, scanned, opened_by,
          lines_in_frame, sender, chan, ser_state, serialized, steps,
          last_item, it, tagger, prod_pc, previous_begin_time,
          current_begin_time, cols, ffi_sent>>

\* ------------------------------------------------------------ small helpers
None == [some |-> FALSE, ev |-> <<>>]

\* An Option that takes an empty vector for None.
Some_unless_empty(v) == IF v = <<>> THEN None ELSE [some |-> TRUE, ev |-> v]

Some(v) == [some |-> TRUE, ev |-> v]

ProcessedEvent(kind, point, channel) ==
    [kind |-> kind, point |-> point, channel |-> channel]
NoOp == ProcessedEvent("NoOp", 0, 0)
FrameNewFrame == ProcessedEvent("FrameNewFrame", 0, 0)
LineNewFrame == ProcessedEvent("LineNewFrame", 0, 0)
PhotonNewFrame == ProcessedEvent("PhotonNewFrame", 0, 0)
Displayed(point, channel) == ProcessedEvent("Displayed", point, channel)

NoEvent == [type_ |-> 0, channel |-> 0, time |-> 0, id |-> 0]

EmptyBuffers == [c \in 0..MergeIdx |-> {}]

\* The framing part of AppState together with the snake's frame origin.
Framing(lc, lv, fo) == [line_count |-> lc, lines_vec |-> lv, frame_origin |-> fo]

\* The state an event finds: the framing state, the frame buffers, and what
\* opened the current frame with the number of its Line events.
Before(st, fb, opened, lines) ==
    [st |-> st, fb |-> fb, opened_by |-> opened, lines_in_frame |-> lines]


\* ------------------------------------------------------------------- snake
\* Snake::time_to_coord_linear: the offset of the photon in the frame decides
\* between a stray photon, a voxel of the frame and a photon beyond the frame.
time_to_coord_linear(st, time, channel) ==
    LET delta == time - st.frame_origin
    IN  IF delta < 0 THEN NoOp
        ELSE IF delta >= FrameWindow THEN PhotonNewFrame
        ELSE Displayed(delta, channel)

\* Snake::update_snake_for_next_frame: the frame origin becomes `time`.
update_snake_for_next_frame(st, time) == [st EXCEPT !.frame_origin = time]

\* Snake::new_taglens_period and Snake::new_laser_event record the event.
new_taglens_period(st, time) == NoOp
new_laser_event(st, time) == NoOp

\* ---------------------------------------------------------- frame buffers
\* FrameBuffers::add_to_render_queue: the voxel enters the map of its
\* channel and the map of the merged channel.
add_to_render_queue(fb, point, channel) ==
    [c \in 0..MergeIdx |->
        IF c = channel \/ c = MergeIdx THEN fb[c] \cup {point} ELSE fb[c]]

\* Channels::render: the merged map is drained into the renderer and the
\* other maps are cleared.
render(fb) ==
    LET drained == [fb EXCEPT ![MergeIdx] = {}]
    IN  [c \in 0..MergeIdx |-> IF c = MergeIdx THEN drained[c] ELSE {}]

\* The calls of PointDisplay on a renderer.
DisplayPoint(p) == [op |-> "display_point", p |-> p]
RenderCall == [op |-> "render", p |-> 0]

\* HashMap::drain: the voxels of the map, each once, in any order.
drain(map) ==
    {order \in [1..Cardinality(map) -> map] :
        \A i, j \in 1..Cardinality(map) : order[i] = order[j] => i = j}

\* A render of a single channel that renders before it displays the points.
render_single_channel_render_first(order) ==
    <<RenderCall>> \o [i \in 1..Len(order) |-> DisplayPoint(order[i])]

\* Channels::render_single_channel: display_point for each drained voxel,
\* then render().
render_single_channel(order) ==
    [i \in 1..Len(order) |-> DisplayPoint(order[i])] \o <<RenderCall>>

\* ------------------------------------------------------- framing machine
\* A handle_line_event that keeps the lines of the frame it closes.
handle_line_event_keep_lines(st, rows, time) ==
    IF st.line_count = rows
    THEN [st  |-> update_snake_for_next_frame(
                      [st EXCEPT !.line_count = 0], time),
          out |-> LineNewFrame]
    ELSE [st  |-> [st EXCEPT !.line_count = st.line_count + 1,
                             !.lines_vec = Append(st.lines_vec, time)],
          out |-> NoOp]

\* A handle_line_event that closes the frame one line later.
handle_line_event_one_more(st, rows, time) ==
    IF st.line_count > rows
    THEN [st  |-> update_snake_for_next_frame(
                      [st EXCEPT !.line_count = 0, !.lines_vec = <<>>], time),
          out |-> LineNewFrame]
    ELSE [st  |-> [st EXCEPT !.line_count = st.line_count + 1,
                             !.lines_vec = Append(st.lines_vec, time)],
          out |-> NoOp]

\* A handle_line_event that counts the lines in lines_vec.
handle_line_event_by_lines_vec(st, rows, time) ==
    IF Len(st.lines_vec) = rows
    THEN [st  |-> update_snake_for_next_frame(
                      [st EXCEPT !.line_count = 0, !.lines_vec = <<>>], time),
          out |-> LineNewFrame]
    ELSE [st  |-> [st EXCEPT !.line_count = st.line_count + 1,
                             !.lines_vec = Append(st.lines_vec, time)],
          out |-> NoOp]

\* AppState::handle_line_event
handle_line_event(st, rows, time) ==
    IF st.line_count = rows
    THEN [st  |-> update_snake_for_next_frame(
                      [st EXCEPT !.line_count = 0, !.lines_vec = <<>>], time),
          out |-> LineNewFrame]
    ELSE [st  |-> [st EXCEPT !.line_count = st.line_count + 1,
                             !.lines_vec = Append(st.lines_vec, time)],
          out |-> NoOp]

\* A handle_frame_event that keeps the line count.
handle_frame_event_keep_count(st, time) ==
    [st  |-> update_snake_for_next_frame([st EXCEPT !.lines_vec = <<>>], time),
     out |-> FrameNewFrame]

\* A handle_frame_event that does not tell the snake of the new frame.
handle_frame_event_no_snake_update(st, time) ==
    [st  |-> [st EXCEPT !.line_count = 0, !.lines_vec = <<>>],
     out |-> FrameNewFrame]

\* AppState::handle_frame_event
handle_frame_event(st, time) ==
    [st  |-> update_snake_for_next_frame(
                 [st EXCEPT !.line_count = 0, !.lines_vec = <<>>], time),
     out |-> FrameNewFrame]

\* ------------------------------------------------------------- dispatcher
\* The DataTypes of the match of AppState::event_to_coordinate.
DataTypes == {"Pmt1", "Pmt2", "Pmt3", "Pmt4", "Line", "TagLens", "Laser",
              "Frame", "Invalid"}

\* A match that hands the TAG lens signal to the line handler.
route_taglens_as_line(st, rows, dt, time) ==
    CASE dt = "Pmt1" -> [st |-> st, out |-> time_to_coord_linear(st, time, 0)]
      [] dt = "Pmt2" -> [st |-> st, out |-> time_to_coord_linear(st, time, 1)]
      [] dt = "Pmt3" -> [st |-> st, out |-> time_to_coord_linear(st, time, 2)]
      [] dt = "Pmt4" -> [st |-> st, out |-> time_to_coord_linear(st, time, 3)]
      [] dt = "Line" -> handle_line_event(st, rows, time)
      [] dt = "TagLens" -> handle_line_event(st, rows, time)
      [] dt = "Laser" -> [st |-> st, out |-> new_laser_event(st, time)]
      [] dt = "Frame" -> handle_frame_event(st, time)
      [] OTHER -> [st |-> st, out |-> NoOp]

\* The match of AppState::event_to_coordinate on the DataType of the
\* channel of a time tag.
route(st, rows, dt, time) ==
    CASE dt = "Pmt1" -> [st |-> st, out |-> time_to_coord_linear(st, time, 0)]
      [] dt = "Pmt2" -> [st |-> st, out |-> time_to_coord_linear(st, time, 1)]
      [] dt = "Pmt3" -> [st |-> st, out |-> time_to_coord_linear(st, time, 2)]
      [] dt = "Pmt4" -> [st |-> st, out |-> time_to_coord_linear(st, time, 3)]
      [] dt = "Line" -> handle_line_event(st, rows, time)
      [] dt = "TagLens" -> [st |-> st, out |-> new_taglens_period(st, time)]
      [] dt = "Laser" -> [st |-> st, out |-> new_laser_event(st, time)]
      [] dt = "Frame" -> handle_frame_event(st, time)
      [] OTHER -> [st |-> st, out |-> NoOp]

\* A dispatcher that routes an event whatever its type.
event_to_coordinate_any_type(st, rows, event) ==
    route(st, rows, inputs_get(event.channel), event.time)

\* A dispatcher that takes an unassigned channel for the line channel.
event_to_coordinate_invalid_as_line(st, rows, event) ==
    IF event.type_ # 0
    THEN [st |-> st, out |-> NoOp]
    ELSE LET dt == inputs_get(event.channel)
         IN  route(st, rows, IF dt = "Invalid" THEN "Line" ELSE dt, event.time)

\* A dispatcher whose lookup of the channel in the inputs fails outside the
\* assigned channels instead of yielding Invalid.
event_to_coordinate_index_panics(st, rows, event) ==
    IF event.type_ # 0
    THEN [st |-> st, out |-> NoOp]
    ELSE LET dt == inputs_get(event.channel)
         IN  IF dt = "Invalid"
             THEN [st |-> st, out |-> ProcessedEvent("Panic", 0, 0)]
             ELSE route(st, rows, dt, event.time)

\* AppState::event_to_coordinate
event_to_coordinate(st, rows, event) ==
    IF event.type_ # 0
    THEN [st |-> st, out |-> NoOp]
    ELSE route(st, rows, inputs_get(event.channel), event.time)

\* An act_on_single_event that goes on after a new frame by a line signal.
halts_not_on_line(out) == out.kind \in {"FrameNewFrame", "PhotonNewFrame"}

\* An act_on_single_event that goes on after a photon beyond the frame.
halts_not_on_photon(out) == out.kind \in {"FrameNewFrame", "LineNewFrame"}

\* The outcomes for which act_on_single_event returns Some(..), which stops
\* find_map.
halts(out) == out.kind \in {"FrameNewFrame", "PhotonNewFrame", "LineNewFrame"}

\* AppState::act_on_single_event
act_on_single_event(st, fb, rows, event) ==
    LET r == event_to_coordinate(st, rows, event)
    IN  [st   |-> r.st,
         fb   |-> IF r.out.kind = "Displayed"
                  THEN add_to_render_queue(fb, r.out.point, r.out.channel)
                  ELSE fb,
         out  |-> r.out,
         halt |-> halts(r.out)]

\* The closure of the two find_map calls of advance_till_first_frame_line:
\* the DataType of a synchronising event, "None" for any other event.
frame_started(event) ==
    IF event.type_ = 0
    THEN LET dt == inputs_get(event.channel)
         IN  IF dt \in {"Line", "Frame"} THEN dt ELSE "None"
    ELSE "None"

\* A collect() that starts at the event find_map has stopped at.
remaining_events_with_found(iter) == iter

\* What is left of an iterator after find_map has stopped at its first
\* event: the events that collect() gathers into the carry.
remaining_events(iter) == Tail(iter)

\* A cadence counted from frame 0.
in_cadence_from_zero(fn, avg) == (fn - 1) % avg = 0

\* The cadence of the acquisition loop: frame_number % rolling_avg == 0.
in_cadence(fn, avg) == fn % avg = 0

\* An advance_till_first_frame_line that does not count the line it found.
advance_found_uncounted(st, dt, time) ==
    update_snake_for_next_frame(
        [st EXCEPT !.lines_vec = <<>>, !.line_count = 0], time)

\* An advance_till_first_frame_line that leaves lines_vec as it finds it.
advance_found_keeps_lines(st, dt, time) ==
    update_snake_for_next_frame(
        [st EXCEPT !.line_count = IF dt = "Line" THEN 1 ELSE 0], time)

\* The framing state advance_till_first_frame_line leaves when it has found
\* the synchronising event.
advance_found(st, dt, time) ==
    update_snake_for_next_frame(
        [st EXCEPT !.lines_vec = <<>>,
                   !.line_count = IF dt = "Line" THEN 1 ELSE 0], time)

\* A snapshot taken after the render of the iteration.
Snapshot_after_render(frame, fb) == [frame |-> frame, fb |-> render(fb)]

\* ---------------------------------------------------- serializer channel
\* A snapshot in the channel: the clone of the frame buffers, with the
\* number of the frame it was taken in.
Snapshot(frame, fb) == [frame |-> frame, fb |-> fb]

\* A send that puts the snapshot in front of the waiting ones.
send_to_front(ch, msg) == <<msg>> \o ch

\* sender.send(..) on the unbounded channel: the snapshot joins the end.
send(ch, msg) == Append(ch, msg)

\* The receive of the serializer: the oldest snapshot of the channel.
recv(ch) == [msg |-> Head(ch), rest |-> Tail(ch)]

\* A channel that reports the disconnection while snapshots are waiting.
disconnected_with_pending(snd, ch) == snd = "dropped"

\* The receive of the serializer ends the worker when the sending end is
\* dropped and no snapshot is left in the channel.
disconnected(snd, ch) == snd = "dropped" /\ ch = <<>>

\* The positions at which the call of the acquisition loop is over: the
\* normal return, the error return of a source that cannot be opened, and
\* the panics of the two unwrap() on the serializer.
Terminal == {"done", "failed", "send_panic", "join_panic"}

\* ------------------------------------------------------------ EventStream
\* Event::new
Event(type_, missed_event, channel, time) ==
    [type_ |-> type_, missed_event |-> missed_event, channel |-> channel,
     time |-> time]

\* EventStream::new: the four columns.
EventStream(type_, missed_events, channel, time) ==
    [type_ |-> type_, missed_events |-> missed_events, channel |-> channel,
     time |-> time]

\* EventStream::num_rows
num_rows(stream) == Len(stream.type_)

\* IntoIterator for &EventStream
into_iter(stream) == [stream |-> stream, idx |-> 0, len |-> num_rows(stream)]

\* A next() that reads the first row whatever its position.
next_first_row(iter) ==
    IF iter.idx < iter.len
    THEN [item |-> Some(Event(iter.stream.type_[1],
                              iter.stream.missed_events[1],
                              iter.stream.channel[1],
                              iter.stream.time[1])),
          iter |-> [iter EXCEPT !.idx = iter.idx + 1]]
    ELSE [item |-> None, iter |-> iter]

\* RefEventStreamIter::next: row idx of the columns (rows count from 0 in
\* the code and from 1 here), then None.
next(iter) ==
    IF iter.idx < iter.len
    THEN [item |-> Some(Event(iter.stream.type_[iter.idx + 1],
                              iter.stream.missed_events[iter.idx + 1],
                              iter.stream.channel[iter.idx + 1],
                              iter.stream.time[iter.idx + 1])),
          iter |-> [iter EXCEPT !.idx = iter.idx + 1]]
    ELSE [item |-> None, iter |-> iter]

\* Iterator::find_map with a closure that stops at an event of `channel`:
\* what it has found, the iterator it leaves, and the events it has taken.
RECURSIVE find_map(_, _)
find_map(iter, channel) ==
    LET r == next(iter)
    IN  IF ~r.item.some
        THEN [found |-> None, iter |-> r.iter, taken |-> <<>>]
        ELSE IF r.item.ev.channel = channel
        THEN [found |-> r.item, iter |-> r.iter, taken |-> <<r.item.ev>>]
        ELSE LET q == find_map(r.iter, channel)
             IN  [q EXCEPT !.taken = <<r.item.ev>> \o q.taken]

\* An iterator with its history: the events it has yielded, the Nones it has
\* returned, its last answer, the last call made on it, and the row the last
\* find_map has stopped at.
IterState(iter) ==
    [iter |-> iter, yielded |-> <<>>, nones |-> 0, last |-> None,
     op |-> "none", found_at |-> 0]

NoIter == IterState(into_iter(EventStream(<<>>, <<>>, <<>>, <<>>)))

\* The streams of up to MaxStreamRows rows, the four columns of equal length.
EventStreams ==
    UNION {{EventStream(t, m, c, ti) :
                t \in [1..n -> {0, 1}], m \in [1..n -> {0}],
                c \in [1..n -> {1, 2}], ti \in [1..n -> Times]} :
           n \in 0..MaxStreamRows}

\* An item of the data stream: Err(..) for a batch that could not be
\* extracted, Ok(Waiting), Ok(Some(batch)) with the rows of the batch, and
\* None at the end of the stream.
StreamItem(kind, rows) == [kind |-> kind, rows |-> rows]
NoItem == StreamItem("none", 0)
StreamItems ==
    {StreamItem("Err", 0), StreamItem("Waiting", 0), StreamItem("None", 0)}
        \cup {StreamItem("Some", n) : n \in 0..MaxBatchLen}

\* A count of the batches read that counts every item of the stream.
batch_readout_count_any_item(item, count) == count + 1

\* The batch_readout_count after an item: `+= 1` in the arm of
\* StreamState::Some only.
batch_readout_count_after(item, count) ==
    IF item.kind = "Some" THEN count + 1 ELSE count

\* AppState::get_event_stream: None for a batch of zero rows, else the
\* stream over the rows of the batch.
get_event_stream(item) ==
    IF item.rows = 0 THEN None ELSE Some([row \in 1..item.rows |-> row])

\* The items after which the while loops `continue`.
continues(item) ==
    \/ item.kind \in {"Err", "Waiting"}
    \/ item.kind = "Some" /\ ~get_event_stream(item).some

\* An acquisition that opens the source whether or not a stream is there.
acquire_filehandle_reopens(ds, can_open) ==
    IF can_open
    THEN [data_stream |-> "open", ret |-> "Ok", how |-> "opened"]
    ELSE [data_stream |-> "none", ret |-> "Err", how |-> "error"]

\* AppState::acquire_stream_filehandle and AppState::acquire_filehandle,
\* which differ in the kind of the source only: without a stream the source
\* is opened, which may fail; an existing stream is left in place.
acquire_filehandle(ds, can_open) ==
    IF ds = "none"
    THEN IF can_open
         THEN [data_stream |-> "open", ret |-> "Ok", how |-> "opened"]
         ELSE [data_stream |-> "none", ret |-> "Err", how |-> "error"]
    ELSE [data_stream |-> ds, ret |-> "Ok", how |-> "kept"]

\* send_arrays_over_ffi before its loop, with a tagger that has published
\* nothing: previous_begin_time = 0 and the four columns declared.
NoCols == [type_ |-> <<>>, missed_events |-> <<>>, channel |-> <<>>,
           time |-> <<>>]
ProducerStart ==
    /\ tagger = <<>>
    /\ prod_pc = "begin_time"
    /\ previous_begin_time = 0
    /\ current_begin_time = 0
    /\ cols = NoCols
    /\ ffi_sent = <<>>

NoPrev == Before(Framing(0, <<>>, 0), EmptyBuffers, "none", 0)

\* A step of the thread that takes no event.
NoTake ==
    /\ fresh' = FALSE
    /\ last_event' = [NoEvent EXCEPT !.id = last_event.id]
    /\ prev' = NoPrev

\* -------------------------------------------------------------------- Init
\* AppState::new, the configuration being any number of rows and any
\* rolling average of the bounds.
Init ==
    /\ pc = "acquire"
    /\ data_stream = "none"
    /\ acquisitions = <<>>
    /\ n_supplied = 0
    /\ events_iter = <<>>
    /\ events_after_newframe = None
    /\ adv_caller = "init"
    /\ rows_per_frame \in 1..MaxRows
    /\ rolling_avg \in 1..MaxRollingAvg
    /\ line_count = 0
    /\ lines_vec = <<>>
    /\ frame_origin = 0
    /\ frame_buffers = EmptyBuffers
    /\ batch_readout_count = 0
    /\ frame_number = 1
    /\ queue = <<>>
    /\ n_renders = 0
    /\ calls = <<>>
    /\ n_should_close = 0
    /\ should_close = FALSE
    /\ outcome = NoOp
    /\ last_event = NoEvent
    /\ last_op = "none"
    /\ fresh = FALSE
    /\ scanned = 0
    /\ last_item = NoItem
    /\ prev = NoPrev
    /\ opened_by = "none"
    /\ lines_in_frame = 0
    /\ sender = "none"
    /\ chan = <<>>
    /\ ser_state = "none"
    /\ serialized = <<>>
    /\ steps = 0
    /\ it = NoIter
    /\ ProducerStart

appVars == <<line_count, lines_vec, frame_origin>>
cfgVars == <<rows_per_frame, rolling_avg, steps>>
prodVars == <<tagger, prod_pc, previous_begin_time, current_begin_time, cols,
              ffi_sent>>
serVars == <<sender, chan, ser_state, serialized>>
srcVars == <<data_stream, acquisitions, n_supplied, batch_readout_count>>
loopVars == <<frame_number, queue, n_renders, calls, n_should_close>>
frameGhost == <<opened_by, lines_in_frame>>
takeVars == <<last_op, scanned, last_item>>

CurFraming == Framing(line_count, lines_vec, frame_origin)
CurBefore == Before(CurFraming, frame_buffers, opened_by, lines_in_frame)

\* A batch of n rows the source delivers next, as the source positions of
\* its events.  The source fixes the value of the event at each position;
\* the model draws it when an iterator yields the position.
Batch(n) == [i \in 1..n |-> n_supplied + i]

\* The event an iterator yields for the source position `id`.
EventAt(id, v) ==
    [type_ |-> v.type_, channel |-> v.channel, time |-> v.time, id |-> id]

\* ------------------------------------------------- start of the acquisition
\* acquire_stream_filehandle followed by the call
\* advance_till_first_frame_line(None), or the error return.
AcquireStream ==
    /\ pc = "acquire"
    /\ NoTake
    /\ \E can_open \in BOOLEAN :
          LET r == acquire_filehandle(data_stream, can_open)
          IN  /\ data_stream' = r.data_stream
              /\ acquisitions' = Append(acquisitions, r.how)
              /\ IF r.ret = "Ok"
                 THEN adv_caller' = "init" /\ pc' = "adv_loop"
                 ELSE adv_caller' = adv_caller /\ pc' = "failed"
    /\ UNCHANGED <<n_supplied, batch_readout_count, events_iter,
                   events_after_newframe, cfgVars, prodVars, serVars, it, appVars, frame_buffers,
                   loopVars, should_close, outcome, takeVars, frameGhost>>

\* ------------------------------------------- advance_till_first_frame_line
\* The value advance_till_first_frame_line returns goes to its caller: the
\* set-up of start_inf_acq_loop, or drain_existing_data and through it
\* populate_single_frame, which returns a Some(..) to the loop and goes on
\* to read batches after a None.
AdvReturn(ret) ==
    IF adv_caller = "init"
    THEN /\ events_after_newframe' = ret
         /\ pc' = "spawn"
    ELSE IF adv_caller \in {"for_init", "for_loop"}
    THEN /\ events_after_newframe' = ret
         /\ pc' = "for_head"
    ELSE IF ret.some
         THEN /\ events_after_newframe' = ret
              /\ pc' = "cadence"
         ELSE /\ events_after_newframe' = events_after_newframe
              /\ pc' = "pop_loop"

\* One step of a find_map of advance_till_first_frame_line, over the carry
\* (pc = "adv_carry") or over a batch (pc = "adv_batch").
AdvScan ==
    /\ pc \in {"adv_carry", "adv_batch"}
    /\ IF events_iter = <<>>
       THEN /\ pc' = "adv_loop"
            /\ NoTake
            /\ UNCHANGED <<events_iter, events_after_newframe, appVars,
                           takeVars, frameGhost>>
       ELSE \E v \in EventVals :
            LET event == EventAt(Head(events_iter), v)
                dt == frame_started(event)
            IN  /\ last_event' = event
                /\ last_op' = IF dt # "None" THEN "sync" ELSE "pass"
                /\ fresh' = TRUE
                /\ scanned' = scanned + 1
                /\ last_item' = last_item
                /\ prev' = CurBefore
                /\ IF dt # "None"
                   THEN LET st == advance_found(CurFraming, dt, event.time)
                        IN  /\ line_count' = st.line_count
                            /\ lines_vec' = st.lines_vec
                            /\ frame_origin' = st.frame_origin
                            /\ opened_by' = IF dt = "Line" THEN "sync_line"
                                                           ELSE "sync_frame"
                            /\ lines_in_frame' = IF dt = "Line" THEN 1 ELSE 0
                            /\ events_iter' = <<>>
                            /\ AdvReturn(Some(remaining_events(events_iter)))
                   ELSE /\ events_iter' = Tail(events_iter)
                        /\ pc' = pc
                        /\ UNCHANGED <<events_after_newframe, appVars,
                                       frameGhost>>
    /\ UNCHANGED <<srcVars, adv_caller, cfgVars, prodVars, serVars, it, frame_buffers, loopVars,
                   should_close, outcome>>

\* The head of the while loop of advance_till_first_frame_line and the read
\* of the next item of the source.
AdvReadBatch ==
    /\ pc = "adv_loop"
    /\ NoTake
    /\ \/ /\ data_stream = "finished"
          /\ AdvReturn(None)
          /\ UNCHANGED <<srcVars, events_iter, last_item>>
       \/ /\ data_stream = "open"
          /\ \E item \in StreamItems :
                /\ item.kind = "Some" => batch_readout_count < MaxBatches
                /\ last_item' = item
                /\ batch_readout_count' =
                       batch_readout_count_after(item, batch_readout_count)
                /\ n_supplied' = n_supplied + item.rows
                /\ acquisitions' = acquisitions
                /\ IF item.kind = "None"
                   THEN /\ data_stream' = "finished"
                        /\ events_iter' = events_iter
                        /\ AdvReturn(None)
                   ELSE /\ data_stream' = data_stream
                        /\ events_after_newframe' = events_after_newframe
                        /\ IF continues(item)
                           THEN pc' = "adv_loop" /\ events_iter' = events_iter
                           ELSE pc' = "adv_batch"
                                /\ events_iter' = Batch(item.rows)
    /\ UNCHANGED <<adv_caller, cfgVars, prodVars, serVars, it, appVars, frame_buffers, loopVars,
                   should_close, outcome, last_op, scanned, frameGhost>>


\* The channel to the serializer is created and the serializer thread is
\* spawned, before the first iteration of the loop.
SpawnSerializer ==
    /\ pc = "spawn"
    /\ NoTake
    /\ sender' = "alive"
    /\ ser_state' = "running"
    /\ pc' = "loop_head"
    /\ UNCHANGED <<srcVars, events_iter, events_after_newframe, adv_caller,
                   cfgVars, prodVars, chan, serialized, it, appVars, frame_buffers,
                   loopVars, should_close, outcome, takeVars, frameGhost>>

\* ---------------------------------------------------- populate_single_frame
\* The head of the while loop of start_inf_acq_loop: the loop ends when the
\* window should close, otherwise populate_single_frame is called with the
\* carry, which it drains first when there is one.
LoopHead ==
    /\ pc = "loop_head"
    /\ NoTake
    /\ IF should_close
       THEN /\ pc' = "shutdown"
            /\ UNCHANGED <<events_iter, events_after_newframe>>
       ELSE IF events_after_newframe.some
            THEN /\ events_iter' = events_after_newframe.ev
                 /\ events_after_newframe' = None
                 /\ pc' = "drain"
            ELSE /\ pc' = "pop_loop"
                 /\ UNCHANGED <<events_iter, events_after_newframe>>
    /\ n_should_close' = n_should_close + 1
    /\ UNCHANGED <<srcVars, adv_caller, cfgVars, prodVars, serVars, it, appVars, frame_buffers,
                   frame_number, queue, n_renders, calls, should_close,
                   outcome, takeVars, frameGhost>>

\* What the frame ghost becomes when `event` has been dispatched with the
\* outcome `out`.
FrameGhostAfter(event, out) ==
    CASE out.kind = "LineNewFrame" -> <<"line", 1>>
      [] out.kind = "FrameNewFrame" -> <<"frame", 0>>
      [] out.kind = "PhotonNewFrame" -> <<"none", 0>>
      [] out.kind = "NoOp" /\ frame_started(event) = "Line" ->
            <<opened_by, lines_in_frame + 1>>
      [] OTHER -> <<opened_by, lines_in_frame>>

\* One step of the find_map of drain_existing_data: the next event of the
\* carry or of the batch is dispatched by act_on_single_event.  A new frame
\* by a frame or line signal makes populate_single_frame return the rest; a
\* photon beyond the frame calls advance_till_first_frame_line on the rest;
\* the end of the iterator leads to the while loop of populate_single_frame.
Drain ==
    /\ pc = "drain"
    /\ IF events_iter = <<>>
       THEN /\ pc' = "pop_loop"
            /\ NoTake
            /\ UNCHANGED <<events_iter, events_after_newframe, adv_caller,
                           appVars, frame_buffers, outcome, takeVars, frameGhost>>
       ELSE \E v \in EventVals :
            LET event == EventAt(Head(events_iter), v)
                r == act_on_single_event(CurFraming, frame_buffers,
                                         rows_per_frame, event)
                g == FrameGhostAfter(event, r.out)
            IN  /\ last_event' = event
                /\ last_op' = "dispatch"
                /\ fresh' = TRUE
                /\ scanned' = 0
                /\ last_item' = last_item
                /\ prev' = CurBefore
                /\ outcome' = r.out
                /\ line_count' = r.st.line_count
                /\ lines_vec' = r.st.lines_vec
                /\ frame_origin' = r.st.frame_origin
                /\ frame_buffers' = r.fb
                /\ opened_by' = g[1]
                /\ lines_in_frame' = g[2]
                /\ IF ~r.halt
                   THEN /\ events_iter' = Tail(events_iter)
                        /\ pc' = "drain"
                        /\ UNCHANGED <<events_after_newframe, adv_caller>>
                   ELSE IF r.out.kind = "PhotonNewFrame"
                   THEN /\ events_iter' = remaining_events(events_iter)
                        /\ adv_caller' = "drain"
                        /\ pc' = "adv_carry"
                        /\ UNCHANGED events_after_newframe
                   ELSE /\ events_after_newframe' = Some(remaining_events(events_iter))
                        /\ events_iter' = <<>>
                        /\ pc' = "cadence"
                        /\ UNCHANGED adv_caller
    /\ UNCHANGED <<srcVars, cfgVars, prodVars, serVars, it, loopVars, should_close>>

\* The head of the while loop of populate_single_frame and the read of the
\* next item of the source; at the end of the stream populate_single_frame
\* returns None.
PopReadBatch ==
    /\ pc = "pop_loop"
    /\ NoTake
    /\ \/ /\ data_stream = "finished"
          /\ events_after_newframe' = None
          /\ pc' = "cadence"
          /\ UNCHANGED <<srcVars, events_iter, last_item>>
       \/ /\ data_stream = "open"
          /\ \E item \in StreamItems :
                /\ item.kind = "Some" => batch_readout_count < MaxBatches
                /\ last_item' = item
                /\ batch_readout_count' =
                       batch_readout_count_after(item, batch_readout_count)
                /\ n_supplied' = n_supplied + item.rows
                /\ acquisitions' = acquisitions
                /\ IF item.kind = "None"
                   THEN /\ data_stream' = "finished"
                        /\ events_iter' = events_iter
                        /\ events_after_newframe' = None
                        /\ pc' = "cadence"
                   ELSE /\ data_stream' = data_stream
                        /\ events_after_newframe' = events_after_newframe
                        /\ IF continues(item)
                           THEN pc' = "pop_loop" /\ events_iter' = events_iter
                           ELSE pc' = "drain"
                                /\ events_iter' = Batch(item.rows)
    /\ UNCHANGED <<adv_caller, cfgVars, prodVars, serVars, it, appVars, frame_buffers, loopVars,
                   should_close, outcome, last_op, scanned, frameGhost>>

\* ------------------------------------------------ the rest of an iteration
\* frame_number += 1 and the break of the loop when the carry is None.
EndIteration ==
    /\ frame_number' = frame_number + 1
    /\ pc' = IF events_after_newframe.some THEN "loop_head" ELSE "shutdown"

\* sender.send(self.frame_buffers.clone()).unwrap() in an iteration of the
\* cadence: the send fails when the serializer has dropped the receiving end,
\* and the unwrap() then panics.
SendSnapshot ==
    /\ pc = "cadence"
    /\ NoTake
    /\ in_cadence(frame_number, rolling_avg)
    /\ IF ser_state \in {"failed", "ended"}
       THEN /\ pc' = "send_panic"
            /\ UNCHANGED <<queue, chan>>
       ELSE /\ queue' = Append(queue, frame_buffers)
            /\ chan' = send(chan, Snapshot(frame_number, frame_buffers))
            /\ pc' = "render"
    /\ UNCHANGED <<srcVars, events_iter, events_after_newframe, adv_caller,
                   cfgVars, prodVars, sender, ser_state, serialized, it, appVars,
                   frame_buffers, frame_number, n_renders, calls,
                   n_should_close, should_close, outcome, takeVars,
                   frameGhost>>

\* self.render() after the send, then the rest of the iteration.
Render ==
    /\ pc = "render"
    /\ NoTake
    /\ frame_buffers' = render(frame_buffers)
    /\ \E order \in drain(frame_buffers[MergeIdx]) :
          calls' = render_single_channel(order)
    /\ n_renders' = n_renders + 1
    /\ EndIteration
    /\ UNCHANGED <<srcVars, events_iter, events_after_newframe, adv_caller,
                   cfgVars, prodVars, serVars, it, appVars, queue, n_should_close,
                   should_close, outcome, takeVars, frameGhost>>

\* An iteration outside the cadence neither sends nor renders.
SkipCadence ==
    /\ pc = "cadence"
    /\ NoTake
    /\ ~in_cadence(frame_number, rolling_avg)
    /\ EndIteration
    /\ UNCHANGED <<srcVars, events_iter, events_after_newframe, adv_caller,
                   cfgVars, prodVars, serVars, it, appVars, frame_buffers, queue, n_renders,
                   calls, n_should_close, should_close, outcome, takeVars,
                   frameGhost>>

\* A shutdown that goes to the join with the sending end still alive.
Shutdown_keep_sender ==
    /\ pc = "shutdown"
    /\ NoTake
    /\ pc' = "join"
    /\ UNCHANGED <<srcVars, events_iter, events_after_newframe, adv_caller,
                   cfgVars, prodVars, serVars, it, appVars, frame_buffers, loopVars,
                   should_close, outcome, takeVars, frameGhost>>

\* A shutdown that sends the frame buffers once more before it drops the
\* sender.
Shutdown_flushes ==
    /\ pc = "shutdown"
    /\ NoTake
    /\ queue' = Append(queue, frame_buffers)
    /\ chan' = send(chan, Snapshot(frame_number, frame_buffers))
    /\ sender' = "dropped"
    /\ pc' = "join"
    /\ UNCHANGED <<srcVars, events_iter, events_after_newframe, adv_caller,
                   cfgVars, prodVars, ser_state, serialized, it, appVars,
                   frame_buffers, frame_number, n_renders, calls,
                   n_should_close, should_close, outcome, takeVars,
                   frameGhost>>

\* drop(sender) after the loop.
Shutdown ==
    /\ pc = "shutdown"
    /\ NoTake
    /\ sender' = "dropped"
    /\ pc' = "join"
    /\ UNCHANGED <<srcVars, events_iter, events_after_newframe, adv_caller,
                   cfgVars, prodVars, chan, ser_state, serialized, it, appVars,
                   frame_buffers, loopVars, should_close,
                   outcome, takeVars, frameGhost>>

\* handle.join().unwrap(): the call waits for the serializer thread to end
\* and returns Ok(()); the unwrap() panics when that thread has failed.
Join ==
    /\ pc = "join"
    /\ ser_state \in {"ended", "failed"}
    /\ NoTake
    /\ pc' = IF ser_state = "ended" THEN "done" ELSE "join_panic"
    /\ UNCHANGED <<srcVars, events_iter, events_after_newframe, adv_caller,
                   cfgVars, prodVars, serVars, it, appVars, frame_buffers, loopVars,
                   should_close, outcome, takeVars, frameGhost>>

\* -------------------------------------------------------- serializer thread
thrVars == <<pc, fresh, last_event, prev, srcVars, events_iter,
             events_after_newframe, adv_caller, cfgVars, prodVars, it, appVars,
             frame_buffers, loopVars, should_close, outcome, takeVars,
             frameGhost>>

\* The serializer receives the oldest snapshot of the channel and writes it.
SerRecv ==
    /\ ser_state = "running"
    /\ chan # <<>>
    /\ serialized' = Append(serialized, recv(chan).msg)
    /\ chan' = recv(chan).rest
    /\ UNCHANGED <<thrVars, sender, ser_state>>

\* The serializer finds the channel disconnected and ends.
SerEnd ==
    /\ ser_state = "running"
    /\ disconnected(sender, chan)
    /\ ser_state' = "ended"
    /\ UNCHANGED <<thrVars, sender, chan, serialized>>

\* The serializer stops on a failure (its file cannot be opened or written)
\* and drops the receiving end with what is left in the channel.
SerFail ==
    /\ ser_state = "running"
    /\ ser_state' = "failed"
    /\ UNCHANGED <<thrVars, sender, chan, serialized>>

\* The user closes the window of the merged channel.
WindowClose ==
    /\ pc \notin {"acquire"} \cup Terminal
    /\ ~should_close
    /\ should_close' = TRUE
    /\ UNCHANGED <<pc, fresh, last_event, prev, srcVars, events_iter, events_after_newframe,
                   adv_caller, cfgVars, prodVars, serVars, it, appVars, frame_buffers, loopVars,
                   outcome, takeVars, frameGhost>>

Next ==
    \/ AcquireStream
    \/ AdvScan
    \/ AdvReadBatch
    \/ SpawnSerializer
    \/ LoopHead
    \/ Drain
    \/ PopReadBatch
    \/ SendSnapshot
    \/ Render
    \/ SkipCadence
    \/ Shutdown
    \/ Join
    \/ SerRecv
    \/ SerEnd
    \/ SerFail
    \/ WindowClose

Spec == Init /\ [][Next]_vars

\* ------------------------------------------------------ start_acq_loop_for
\* The state before start_acq_loop_for(steps, rolling_avg) is called.
InitFor ==
    /\ pc = "acquire_for"
    /\ data_stream = "none"
    /\ acquisitions = <<>>
    /\ n_supplied = 0
    /\ events_iter = <<>>
    /\ events_after_newframe = None
    /\ adv_caller = "for_init"
    /\ rows_per_frame \in 1..MaxRows
    /\ rolling_avg \in 1..MaxRollingAvg
    /\ line_count = 0
    /\ lines_vec = <<>>
    /\ frame_origin = 0
    /\ frame_buffers = EmptyBuffers
    /\ batch_readout_count = 0
    /\ frame_number = 1
    /\ queue = <<>>
    /\ n_renders = 0
    /\ calls = <<>>
    /\ n_should_close = 0
    /\ should_close = FALSE
    /\ outcome = NoOp
    /\ last_event = NoEvent
    /\ last_op = "none"
    /\ fresh = FALSE
    /\ scanned = 0
    /\ last_item = NoItem
    /\ prev = NoPrev
    /\ opened_by = "none"
    /\ lines_in_frame = 0
    /\ sender = "none"
    /\ chan = <<>>
    /\ ser_state = "none"
    /\ serialized = <<>>
    /\ steps \in 1..MaxSteps
    /\ it = NoIter
    /\ ProducerStart

\* acquire_filehandle followed by the call
\* advance_till_first_frame_line(None), or the error return.
AcquireFilehandle ==
    /\ pc = "acquire_for"
    /\ NoTake
    /\ \E can_open \in BOOLEAN :
          LET r == acquire_filehandle(data_stream, can_open)
          IN  /\ data_stream' = r.data_stream
              /\ acquisitions' = Append(acquisitions, r.how)
              /\ pc' = IF r.ret = "Ok" THEN "adv_loop" ELSE "failed"
    /\ UNCHANGED <<n_supplied, batch_readout_count, events_iter, adv_caller,
                   events_after_newframe, cfgVars, prodVars, serVars, it, appVars,
                   frame_buffers, loopVars, should_close, outcome, takeVars,
                   frameGhost>>

\* The head of the for loop: after `steps` iterations the call returns,
\* otherwise populate_single_frame is called with the carry.
ForHead ==
    /\ pc = "for_head"
    /\ NoTake
    /\ IF frame_number > steps
       THEN /\ pc' = "done"
            /\ UNCHANGED <<events_iter, events_after_newframe>>
       ELSE IF events_after_newframe.some
            THEN /\ events_iter' = events_after_newframe.ev
                 /\ events_after_newframe' = None
                 /\ pc' = "drain"
            ELSE /\ pc' = "pop_loop"
                 /\ UNCHANGED <<events_iter, events_after_newframe>>
    /\ UNCHANGED <<srcVars, adv_caller, cfgVars, prodVars, serVars, it, appVars,
                   frame_buffers, loopVars, should_close, outcome, takeVars,
                   frameGhost>>

\* The rest of an iteration of the for loop: the render of the merged
\* channel in the cadence, frame_number += 1, and the call of
\* advance_till_first_frame_line on what populate_single_frame returned.
ForCadence ==
    /\ pc = "cadence"
    /\ NoTake
    /\ n_renders' = IF in_cadence(frame_number, rolling_avg)
                    THEN n_renders + 1 ELSE n_renders
    /\ calls' = IF in_cadence(frame_number, rolling_avg)
                THEN <<RenderCall>> ELSE calls
    /\ frame_number' = frame_number + 1
    /\ adv_caller' = "for_loop"
    /\ scanned' = 0
    /\ IF events_after_newframe.some
       THEN /\ events_iter' = events_after_newframe.ev
            /\ pc' = "adv_carry"
       ELSE /\ events_iter' = events_iter
            /\ pc' = "adv_loop"
    /\ events_after_newframe' = None
    /\ UNCHANGED <<srcVars, cfgVars, prodVars, serVars, it, appVars, frame_buffers,
                   queue, n_should_close, should_close, outcome, last_op,
                   last_item, frameGhost>>

\* start_acq_loop_for is called again on the same AppState, after it has
\* returned: its local variables start afresh, the AppState is as the call
\* before has left it.
CallAgain ==
    /\ pc \in {"done", "failed"}
    /\ Len(acquisitions) < MaxCalls
    /\ NoTake
    /\ pc' = "acquire_for"
    /\ frame_number' = 1
    /\ events_after_newframe' = None
    /\ events_iter' = <<>>
    /\ adv_caller' = "for_init"
    /\ scanned' = 0
    /\ UNCHANGED <<srcVars, cfgVars, prodVars, serVars, it, appVars, frame_buffers,
                   queue, n_renders, calls, n_should_close, should_close,
                   outcome, last_op, last_item, frameGhost>>

NextFor ==
    \/ AcquireFilehandle
    \/ CallAgain
    \/ AdvScan
    \/ AdvReadBatch
    \/ ForHead
    \/ Drain
    \/ PopReadBatch
    \/ ForCadence

SpecFor == InitFor /\ [][NextFor]_vars

\* ------------------------------------------------- an iterator on its own
notIter == <<pc, fresh, last_event, prev, srcVars, events_iter,
             events_after_newframe, adv_caller, cfgVars, prodVars, serVars, appVars,
             frame_buffers, loopVars, should_close, outcome, takeVars,
             frameGhost>>

\* An iterator over any stream, before its first call.
InitIter ==
    /\ pc = "iter"
    /\ data_stream = "none"
    /\ acquisitions = <<>>
    /\ n_supplied = 0
    /\ events_iter = <<>>
    /\ events_after_newframe = None
    /\ adv_caller = "init"
    /\ rows_per_frame = 1
    /\ rolling_avg = 1
    /\ line_count = 0
    /\ lines_vec = <<>>
    /\ frame_origin = 0
    /\ frame_buffers = EmptyBuffers
    /\ batch_readout_count = 0
    /\ frame_number = 1
    /\ queue = <<>>
    /\ n_renders = 0
    /\ calls = <<>>
    /\ n_should_close = 0
    /\ should_close = FALSE
    /\ outcome = NoOp
    /\ last_event = NoEvent
    /\ last_op = "none"
    /\ fresh = FALSE
    /\ scanned = 0
    /\ last_item = NoItem
    /\ prev = NoPrev
    /\ opened_by = "none"
    /\ lines_in_frame = 0
    /\ sender = "none"
    /\ chan = <<>>
    /\ ser_state = "none"
    /\ serialized = <<>>
    /\ steps = 0
    /\ it \in {IterState(into_iter(s)) : s \in EventStreams}
    /\ ProducerStart

\* One call of next() on the iterator.
IterNext ==
    /\ it.nones < MaxNones
    /\ LET r == next(it.iter)
       IN  it' = [it EXCEPT
                    !.iter = r.iter,
                    !.yielded = IF r.item.some THEN Append(@, r.item.ev)
                                               ELSE @,
                    !.nones = IF r.item.some THEN @ ELSE @ + 1,
                    !.last = r.item,
                    !.op = "next"]
    /\ UNCHANGED notIter

\* One call of find_map on the iterator, which stops at the first event of
\* some channel.
IterFindMap ==
    /\ it.nones < MaxNones
    /\ \E channel \in {1, 2} :
          LET q == find_map(it.iter, channel)
          IN  it' = [it EXCEPT
                       !.iter = q.iter,
                       !.yielded = @ \o q.taken,
                       !.nones = IF q.found.some THEN @ ELSE @ + 1,
                       !.last = q.found,
                       !.op = "find_map",
                       !.found_at = IF q.found.some THEN q.iter.idx ELSE @]
    /\ UNCHANGED notIter

NextIter == IterNext \/ IterFindMap

SpecIter == InitIter /\ [][NextIter]_vars

\* ------------------------------------------------- the ingest producer
\* The variables send_arrays_over_ffi and the tagger leave alone.
notProducer == <<pc, fresh, last_event, prev, srcVars, events_iter,
                 events_after_newframe, adv_caller, cfgVars, serVars, it,
                 appVars, frame_buffers, loopVars, should_close, outcome,
                 takeVars, frameGhost>>

\* A batch of the tagger: its number, its begin_time and its rows.
TaggerBatch(id, begin_time, rows) ==
    [id |-> id, begin_time |-> begin_time, rows |-> rows]

\* What the attributes of the tagger show: the batch published last, and
\* begin_time = 0 with empty arrays before the first one.
CurrentBatch ==
    IF tagger = <<>> THEN TaggerBatch(0, 0, 0) ELSE tagger[Len(tagger)]

\* A column of a batch as matrix_from_numpy materializes it: one entry for
\* each row, each entry standing for the value of that batch in that row.
matrix_from_numpy(batch) == [i \in 1..batch.rows |-> batch.id]

\* The attribute read after `attr`.
NextAttr(attr) ==
    CASE attr = "type_" -> "missed_events"
      [] attr = "missed_events" -> "channel"
      [] attr = "channel" -> "time"
      [] attr = "time" -> "send"

\* The tagger, in its own thread, replaces its batch by the next one, with a
\* later begin_time.
TaggerPublish ==
    /\ Len(tagger) < MaxPublished
    /\ \E t \in (CurrentBatch.begin_time + 1)..MaxPublished,
          n \in 1..MaxBatchLen :
          tagger' = Append(tagger, TaggerBatch(Len(tagger) + 1, t, n))
    /\ UNCHANGED <<prod_pc, previous_begin_time, current_begin_time, cols,
                   ffi_sent, notProducer>>

\* The head of the loop of send_arrays_over_ffi: begin_time is read and
\* compared with the previous one; unchanged, the loop continues.
ReadBeginTime ==
    /\ prod_pc = "begin_time"
    /\ current_begin_time' = CurrentBatch.begin_time
    /\ IF previous_begin_time = current_begin_time'
       THEN UNCHANGED <<previous_begin_time, prod_pc>>
       ELSE /\ previous_begin_time' = current_begin_time'
            /\ prod_pc' = "type_"
    /\ UNCHANGED <<tagger, cols, ffi_sent, notProducer>>

\* One of the four columns is read from the tagger and materialized.
ReadColumn ==
    /\ prod_pc \in {"type_", "missed_events", "channel", "time"}
    /\ cols' = [cols EXCEPT ![prod_pc] = matrix_from_numpy(CurrentBatch)]
    /\ prod_pc' = NextAttr(prod_pc)
    /\ UNCHANGED <<tagger, previous_begin_time, current_begin_time, ffi_sent,
                   notProducer>>

\* sender.send(EventStream::from_stream(..)) of the four columns read.
SendEventStream ==
    /\ prod_pc = "send"
    /\ ffi_sent' = Append(ffi_sent, EventStream(cols.type_, cols.missed_events,
                                                cols.channel, cols.time))
    /\ prod_pc' = "begin_time"
    /\ UNCHANGED <<tagger, previous_begin_time, current_begin_time, cols,
                   notProducer>>

NextProducer ==
    \/ TaggerPublish
    \/ ReadBeginTime
    \/ ReadColumn
    \/ SendEventStream

\* The producer and the tagger before their first step, the application
\* being left as it is constructed.
InitProducer == Init /\ rows_per_frame = 1 /\ rolling_avg = 1

SpecProducer == InitProducer /\ [][NextProducer]_vars

\* The steps of the processing thread that take an event from an iterator,
\* with the condition under which one of them is possible.
EventSteps == Drain \/ AdvScan
EventStepsEnabled == pc \in {"drain", "adv_carry", "adv_batch"}

\* The other steps of the processing thread, and those of a working
\* serializer.
LoopSteps ==
    \/ AcquireStream
    \/ AdvReadBatch
    \/ SpawnSerializer
    \/ LoopHead
    \/ PopReadBatch
    \/ SendSnapshot
    \/ Render
    \/ SkipCadence
    \/ Shutdown
    \/ Join
Serializer == SerRecv \/ SerEnd

\* The reads of the source that get something other than a skipped item: a
\* batch with rows or the end of the stream.  One of them is possible
\* whenever the thread is at the head of one of the two read loops.
ReadProgress == (AdvReadBatch \/ PopReadBatch) /\ pc' # pc
ReadEnabled == pc \in {"adv_loop", "pop_loop"}

\* Both threads keep running, and a read of the source that can deliver a
\* batch or the end of the stream does so in the end: the source ends after
\* finitely many batches and does not report Waiting, a failed extraction
\* or an empty batch for ever.  The weak fairness of EventSteps and of
\* ReadProgress is written out with its enabling condition.
LiveSpec ==
    /\ Spec
    /\ WF_vars(LoopSteps)
    /\ ([]<>~EventStepsEnabled \/ []<><<EventSteps>>_vars)
    /\ ([]<>~ReadEnabled \/ []<><<ReadProgress>>_vars)
    /\ WF_vars(Serializer)

\* ------------------------------------------------------------ properties
\* The source positions lo..hi in order.
Range(lo, hi) == [i \in 1..(hi - lo + 1) |-> lo + i - 1]

\* The events the source has delivered and no iterator has yielded yet: the
\* rest of the iterator in use or, between two calls, the carry.
Pending ==
    IF pc \in {"drain", "adv_carry", "adv_batch"} THEN events_iter
    ELSE IF events_after_newframe.some THEN events_after_newframe.ev
    ELSE <<>>

\* The events the source has delivered after the last one taken.
Unread == Range(last_event.id + 1, n_supplied)

ValidOn(event, dt) == event.type_ = 0 /\ inputs_get(event.channel) = dt
IsSync(event) == ValidOn(event, "Line") \/ ValidOn(event, "Frame")

\* The channel numbers the configuration assigns to an input.
AssignedChannels == {1, 2, 3, 4, 5}

\* The last step of the thread has dispatched last_event, or has scanned it
\* in advance_till_first_frame_line.
Dispatched == fresh /\ last_op = "dispatch"
Scanned == fresh /\ last_op \in {"pass", "sync"}

AdvPcs == {"adv_carry", "adv_batch", "adv_loop"}

\* C1: the events are taken from the source in its order, each exactly
\* once: in every state the events not yet taken (the rest of the iterator
\* in use, or the carry between two calls of populate_single_frame) are
\* exactly the events delivered after the last one taken, in source order;
\* and after the initial synchronisation an event is scanned over instead
\* of dispatched only while a PhotonNewFrame is being re-synchronised.
C1_ExactlyOnceInOrder ==
    /\ Pending = Unread
    /\ (last_op \in {"pass", "sync"} /\ adv_caller = "drain")
          => outcome.kind = "PhotonNewFrame"

\* The second event of the second batch, left as the carry by a frame
\* boundary at the first, is dispatched by the third call.
C1_Witness ==
    /\ Dispatched
    /\ last_event.id = 4
    /\ batch_readout_count = 2
    /\ frame_number = 3
    /\ outcome.kind = "Displayed"

C3_RowsPerFrameLines ==
    (/\ Dispatched
     /\ outcome = LineNewFrame
     /\ prev.opened_by \in {"line", "sync_line"})
        => prev.lines_in_frame = rows_per_frame

\* C4: a valid event on the frame channel at time t yields FrameNewFrame
\* and leaves line_count = 0, lines_vec empty and the frame origin at t,
\* whatever the framing state it finds.
C4_FrameEvent ==
    (Dispatched /\ ValidOn(last_event, "Frame")) =>
        /\ outcome = FrameNewFrame
        /\ line_count = 0
        /\ lines_vec = <<>>
        /\ frame_origin = last_event.time

\* A frame signal has cut a frame with lines short.
C4_Witness ==
    /\ Dispatched
    /\ ValidOn(last_event, "Frame")
    /\ prev.st.line_count > 0
    /\ prev.st.lines_vec # <<>>
    /\ prev.st.frame_origin # last_event.time

\* C5: an event whose type is not 0 yields NoOp on any channel and leaves
\* line_count, lines_vec, the frame origin and the frame buffers as they
\* were; the frame goes on.
C5_OverflowIsNoOp ==
    (Dispatched /\ last_event.type_ # 0) =>
        /\ outcome = NoOp
        /\ CurFraming = prev.st
        /\ frame_buffers = prev.fb
        /\ pc = "drain"

\* An overflow event on the line channel has met a full frame, which a
\* valid line would have ended, and filled frame buffers.
C5_Witness ==
    /\ Dispatched
    /\ last_event.type_ # 0
    /\ inputs_get(last_event.channel) = "Line"
    /\ prev.st.line_count = rows_per_frame
    /\ prev.fb[MergeIdx] # {}

\* C6: a time tag on a channel that no input is assigned to yields NoOp and
\* leaves the framing state and the frame buffers as they were.
C6_UnassignedIsNoOp ==
    (/\ Dispatched
     /\ last_event.type_ = 0
     /\ last_event.channel \notin AssignedChannels) =>
        /\ outcome = NoOp
        /\ CurFraming = prev.st
        /\ frame_buffers = prev.fb

\* A time tag on the negative unassigned channel has met a frame with lines
\* and filled frame buffers.
C6_Witness ==
    /\ Dispatched
    /\ last_event.type_ = 0
    /\ last_event.channel = -1
    /\ prev.st.line_count > 0
    /\ prev.fb[MergeIdx] # {}

\* C7: advance_till_first_frame_line stops at the first time tag on the
\* line or frame channel: it leaves line_count = 1 (line) or 0 (frame),
\* lines_vec empty and the frame origin at the time of the event, and
\* returns the events after it of the same carry or batch; an event it
\* passes changes nothing and is followed by the next one; and it has
\* returned without such an event only when the source is finished and
\* every delivered event has been taken.
C7_AdvanceTillFirstFrameLine ==
    /\ Scanned =>
          IF IsSync(last_event)
          THEN /\ last_op = "sync"
               /\ line_count = (IF ValidOn(last_event, "Line") THEN 1 ELSE 0)
               /\ lines_vec = <<>>
               /\ frame_origin = last_event.time
               /\ frame_buffers = prev.fb
               /\ events_after_newframe = Some(Unread)
               /\ pc = (IF adv_caller = "init" THEN "spawn" ELSE "cadence")
          ELSE /\ last_op = "pass"
               /\ CurFraming = prev.st
               /\ frame_buffers = prev.fb
               /\ events_iter = Unread
               /\ pc \in {"adv_carry", "adv_batch"}
    /\ (/\ pc \notin AdvPcs \cup {"acquire", "failed"}
        /\ \/ last_op \in {"none", "pass"}
           \/ last_op = "dispatch" /\ outcome = PhotonNewFrame) =>
          /\ data_stream = "finished"
          /\ last_event.id = n_supplied
          /\ events_after_newframe = None

\* The initial synchronisation has passed an event of the first batch,
\* gone on to the second batch and found a line there, with an event left.
C7_Witness ==
    /\ Scanned
    /\ adv_caller = "init"
    /\ ValidOn(last_event, "Line")
    /\ batch_readout_count = 2
    /\ scanned >= 2
    /\ events_after_newframe.ev # <<>>
    /\ frame_origin # prev.st.frame_origin

\* C8: populate_single_frame returns at the first event whose outcome is
\* FrameNewFrame or LineNewFrame, with the events after it (and not the
\* event itself) as the carry; an event after which the dispatch goes on
\* had another outcome.
C8_HaltAtNewFrame ==
    Dispatched =>
        IF outcome.kind \in {"FrameNewFrame", "LineNewFrame"}
        THEN /\ events_after_newframe = Some(Unread)
             /\ pc = "cadence"
        ELSE /\ events_after_newframe = None
             /\ pc = "drain" => outcome.kind \in {"NoOp", "Displayed"}

\* A line has ended the frame at the first event of a batch and the rest
\* of the batch is the carry.
C8_Witness ==
    /\ Dispatched
    /\ outcome = LineNewFrame
    /\ pc = "cadence"
    /\ events_after_newframe.ev # <<>>

\* C9: after a PhotonNewFrame no event is dispatched before the next time
\* tag on the line or frame channel: the rest of the events is scanned, the
\* events scanned over leave the frame buffers and the framing state alone,
\* the framing state is re-anchored at the line or frame event (line_count
\* 1 or 0, lines_vec empty, frame origin at its time) and
\* populate_single_frame returns the events after it.
C9_PhotonResync ==
    /\ (Dispatched /\ outcome = PhotonNewFrame) =>
          /\ pc = "adv_carry"
          /\ events_iter = Unread
    /\ (Scanned /\ adv_caller = "drain") =>
          /\ outcome = PhotonNewFrame
          /\ frame_buffers = prev.fb
          /\ IF IsSync(last_event)
             THEN /\ CurFraming =
                        Framing(IF ValidOn(last_event, "Line") THEN 1 ELSE 0,
                                <<>>, last_event.time)
                  /\ events_after_newframe = Some(Unread)
                  /\ pc = "cadence"
             ELSE CurFraming = prev.st /\ pc \in {"adv_carry", "adv_batch"}

\* A photon beyond the frame: an event has been scanned over and the frame
\* signal after it has re-anchored a frame that had a line, at a new origin.
C9_Witness ==
    /\ Scanned
    /\ adv_caller = "drain"
    /\ ValidOn(last_event, "Frame")
    /\ scanned >= 2
    /\ prev.st.line_count > 0
    /\ prev.st.frame_origin # last_event.time
    /\ pc = "cadence"

\* C10: the k-th iteration of the loop sends a snapshot and renders exactly
\* when k is a multiple of rolling_avg, the send before the render: before
\* the render of an iteration its snapshot is already in the queue, and
\* anywhere else the snapshots sent and the renders done are both the
\* completed iterations divided by rolling_avg.
C10_Cadence ==
    IF pc = "render"
    THEN /\ frame_number % rolling_avg = 0
         /\ Len(queue) = frame_number \div rolling_avg
         /\ n_renders = Len(queue) - 1
    ELSE /\ Len(queue) = (frame_number - 1) \div rolling_avg
         /\ n_renders = (frame_number - 1) \div rolling_avg

\* Four iterations with a rolling average of 2: two snapshots, two renders.
C10_Witness ==
    /\ rolling_avg = 2
    /\ frame_number = 5
    /\ n_renders = 2
    /\ Len(queue) = 2

\* The snapshots sent so far, in the order the serializer gets them: the
\* ones it has received followed by the ones waiting in the channel.
Delivery == serialized \o chan

\* C11: the serializer receives the snapshots in the order the processing
\* thread has sent them, each exactly once: in every state of every
\* interleaving the snapshots received, followed by the ones waiting in the
\* channel, are exactly the snapshots sent, in the order of the sends, and
\* their frame numbers are the successive multiples of rolling_avg.
C11_SnapshotsInOrder ==
    /\ [i \in 1..Len(Delivery) |-> Delivery[i].fb] = queue
    /\ \A i \in 1..Len(Delivery) : Delivery[i].frame = i * rolling_avg

\* The serializer has received two different snapshots while the
\* processing thread was in a later iteration.
C11_Witness ==
    /\ Len(serialized) = 2
    /\ serialized[1].fb # serialized[2].fb
    /\ ser_state = "running"
    /\ pc = "drain"

\* What holds at the end of the acquisition loop: the loop is left with
\* the window open only after populate_single_frame has returned None at the
\* end of the source; the sender is dropped before the join; the serializer
\* ends only on the dropped sender and with every snapshot sent received;
\* and the call returns only after the serializer has ended.
OrderlyShutdown ==
    /\ (pc = "shutdown" /\ ~should_close) =>
          /\ events_after_newframe = None
          /\ data_stream = "finished"
    /\ pc \in {"join", "done", "join_panic"} => sender = "dropped"
    /\ ser_state = "ended" =>
          /\ sender = "dropped"
          /\ chan = <<>>
          /\ Len(serialized) = Len(queue)
    /\ pc = "done" => ser_state = "ended"

\* C12: with a source that ends after finitely many batches the call of
\* start_inf_acq_loop ends: the shutdown is orderly (OrderlyShutdown) in
\* every state, and every run in which the source has been opened and the
\* serializer does not fail reaches the return of the call, so the two
\* threads do not deadlock.
C12_Terminates ==
    /\ []OrderlyShutdown
    /\ <>(pc \in {"done", "failed"} \/ ser_state = "failed")

\* The call has returned with the window open after the serializer has
\* received two snapshots.
C12_Witness ==
    /\ pc = "done"
    /\ ~should_close
    /\ ser_state = "ended"
    /\ Len(serialized) = 2

\* C13: once should_close is true the processing thread reads no further
\* batch from the source: no step taken with should_close true delivers a
\* batch (batch_readout_count and the number of delivered events stay as
\* they are), whatever the source has to offer.
C13_NoReadAfterClose ==
    [][should_close =>
          /\ batch_readout_count' = batch_readout_count
          /\ n_supplied' = n_supplied]_vars

\* C14: start_acq_loop_for takes the events as start_inf_acq_loop does:
\* an event it takes after populate_single_frame has returned, which the
\* infinite loop hands to the next populate_single_frame and so dispatches,
\* leaves the framing state and the frame buffers as the dispatch of that
\* event by act_on_single_event leaves them.
C14_MirrorsInfLoop ==
    (Scanned /\ adv_caller = "for_loop") =>
        LET r == act_on_single_event(prev.st, prev.fb, rows_per_frame,
                                     last_event)
        IN  /\ CurFraming = r.st
            /\ frame_buffers = r.fb

\* The contents lines_vec can have.
LinesVecs == UNION {[1..n -> Times] : n \in 0..(MaxRows + 1)}

\* C15 as stated: the outcome of a dispatch is decided by the event, the
\* Inputs and the snake state alone: a run that dispatches the same event
\* with the same frame origin, whatever its line_count, gets the outcome
\* this run has got.
C15_OutcomeBySnakeState ==
    Dispatched =>
        \A lc \in 0..MaxRows :
            event_to_coordinate(
                Framing(lc, prev.st.lines_vec, prev.st.frame_origin),
                rows_per_frame, last_event).out = outcome

\* C15, amended: the outcome of a dispatch is decided by the event, the
\* Inputs, the snake state and the line count (line_count against
\* rows_per_frame): a run that dispatches the same event with the same frame
\* origin and the same line_count, whatever its lines_vec, gets the outcome
\* this run has got.
C15_OutcomeByFramingState ==
    Dispatched =>
        \A lv \in LinesVecs :
            event_to_coordinate(
                Framing(prev.st.line_count, lv, prev.st.frame_origin),
                rows_per_frame, last_event).out = outcome

\* A line has been dispatched right after the synchronisation on a line:
\* line_count was 1 with lines_vec empty, and a frame of one row has ended.
C15_Witness ==
    /\ Dispatched
    /\ ValidOn(last_event, "Line")
    /\ prev.st.line_count = 1
    /\ prev.st.lines_vec = <<>>
    /\ outcome = LineNewFrame

\* Row i of a stream as an Event.
Row(stream, i) ==
    Event(stream.type_[i], stream.missed_events[i], stream.channel[i],
          stream.time[i])

\* C16: an iterator over an EventStream of N rows yields the rows in their
\* order, each once: what it has yielded so far are the first idx rows, the
\* i-th built from row i of the four columns; it answers None only after
\* all N rows and from then on always; and after a find_map that has
\* stopped at a row, the iterator stands behind that row, so that its next
\* item is the row after it.
C16_IteratorYieldsRowsInOrder ==
    LET stream == it.iter.stream
        N == num_rows(stream)
    IN  /\ it.iter.len = N
        /\ it.iter.idx = Len(it.yielded)
        /\ it.iter.idx <= N
        /\ \A i \in 1..Len(it.yielded) : it.yielded[i] = Row(stream, i)
        /\ (it.op # "none" /\ ~it.last.some) => it.iter.idx = N
        /\ it.nones > 0 => ~it.last.some
        /\ it.last.some => it.last.ev = Row(stream, it.iter.idx)
        /\ (it.op = "find_map" /\ it.last.some) => it.found_at = it.iter.idx

\* A find_map has stopped at the second row of a stream of three different
\* rows, and the next() after it has yielded the third row.
C16_Witness ==
    /\ it.op = "next"
    /\ it.found_at = 2
    /\ it.iter.idx = 3
    /\ it.last.some
    /\ it.last.ev # Row(it.iter.stream, 1)
    /\ it.last.ev # Row(it.iter.stream, 2)

\* C17: a time tag is handled by the arm of its DataType, and only Line and
\* Frame events change line_count or lines_vec: a dispatched time tag has
\* the outcome of the handler of the DataType of its channel; a dispatch
\* that changes line_count or lines_vec is that of a time tag on the line or
\* frame channel; the frame buffers change only with the outcome Displayed,
\* by the voxel of that outcome; and from the framing state of any reachable
\* state the arms of Pmt1..Pmt4, TagLens, Laser and Invalid leave line_count
\* and lines_vec as they are.
C17_RoutedByDataType ==
    /\ Dispatched =>
          /\ last_event.type_ = 0 =>
                outcome = route(prev.st, rows_per_frame,
                                inputs_get(last_event.channel),
                                last_event.time).out
          /\ (line_count # prev.st.line_count \/ lines_vec # prev.st.lines_vec)
                => IsSync(last_event)
          /\ frame_buffers # prev.fb => outcome.kind = "Displayed"
          /\ frame_buffers =
                (IF outcome.kind = "Displayed"
                 THEN add_to_render_queue(prev.fb, outcome.point,
                                          outcome.channel)
                 ELSE prev.fb)
    /\ \A dt \in DataTypes \ {"Line", "Frame"} : \A time \in Times :
          LET r == route(CurFraming, rows_per_frame, dt, time)
          IN  /\ r.st.line_count = line_count
              /\ r.st.lines_vec = lines_vec

\* A time tag of the TAG lens has met a frame with lines and filled frame
\* buffers.
C17_Witness ==
    /\ Dispatched
    /\ ValidOn(last_event, "TagLens")
    /\ prev.st.line_count > 0
    /\ prev.st.lines_vec # <<>>
    /\ prev.fb[MergeIdx] # {}

\* C18: a serializer that has stopped and dropped its receiving end does
\* not stop the processing thread: with a frame boundary found and events
\* left to populate the next frame with, the thread is not ended by the send
\* of a snapshot.
C18_SerializerFailureTolerated ==
    (ser_state = "failed" /\ events_after_newframe.some) => pc # "send_panic"

\* The positions at which the thread unwraps data_stream.
ReadingPcs == {"adv_loop", "adv_carry", "adv_batch", "drain", "pop_loop"}

\* The variants of ProcessedEvent.
ProcessedEventKinds ==
    {"Displayed", "NoOp", "FrameNewFrame", "LineNewFrame", "PhotonNewFrame"}

\* C19: once the source is opened no input data makes the processing thread
\* panic: every event taken, of any type and on any channel, yields a
\* ProcessedEvent; the source unwrapped by populate_single_frame and
\* advance_till_first_frame_line is present wherever they read it; and the
\* thread is ended by a panic only when the serializer has failed.
C19_NoPanicOnData ==
    /\ outcome.kind \in ProcessedEventKinds
    /\ pc \in ReadingPcs => data_stream # "none"
    /\ pc \in {"send_panic", "join_panic"} => ser_state = "failed"

\* A time tag on the negative channel was the last event of the second
\* batch; it was dispatched, the iterator is at its end and
\* drain_existing_data goes on.
C19_Witness ==
    /\ Dispatched
    /\ last_event.type_ = 0
    /\ last_event.channel = -1
    /\ last_event.id = n_supplied
    /\ batch_readout_count = MaxBatches
    /\ events_iter = <<>>
    /\ pc = "drain"

\* C20: populate_single_frame returns None only when the source is
\* exhausted and the step that returned has taken no event, every event
\* delivered having been taken before; a call that has found its frame
\* boundary returns Some of the events after it, which is Some of the empty
\* vector when the boundary is the last event delivered; and the infinite
\* loop leaves by its break only after a call that returned None.
C20_NoneOnlyAtExhaustion ==
    /\ (pc = "cadence" /\ ~events_after_newframe.some) =>
            /\ ~fresh
            /\ data_stream = "finished"
            /\ events_iter = <<>>
            /\ Unread = <<>>
    /\ (pc = "cadence" /\ fresh) =>
            /\ \/ last_op = "sync"
               \/ /\ last_op = "dispatch"
                  /\ outcome.kind \in {"FrameNewFrame", "LineNewFrame"}
            /\ events_after_newframe.some
            /\ events_after_newframe.ev = Unread
    /\ (pc = "shutdown" /\ ~should_close) => ~events_after_newframe.some

\* The call after a frame boundary by a line signal that was the very last
\* event of the last batch has returned None, in a later iteration of the
\* loop.
C20_Witness ==
    /\ pc = "cadence"
    /\ ~events_after_newframe.some
    /\ last_op = "dispatch"
    /\ outcome.kind = "LineNewFrame"
    /\ last_event.id = n_supplied
    /\ n_supplied = MaxBatches * MaxBatchLen
    /\ frame_number >= 2

\* The positions of the heads of the two read loops.
LoopPcs == {"pop_loop", "adv_loop"}

\* A step of the thread that reads an item of the open stream.
ReadStep ==
    /\ pc \in LoopPcs
    /\ data_stream = "open"
    /\ ~fresh'
    /\ <<should_close, serVars>>' = <<should_close, serVars>>
    /\ <<pc, srcVars, last_item>>' # <<pc, srcVars, last_item>>

\* The item read was a batch that failed to extract, a Waiting state or a
\* batch of zero rows.
SkippedItem(item) ==
    item.kind \in {"Err", "Waiting"} \/ (item.kind = "Some" /\ item.rows = 0)

\* C21: a failed batch, a Waiting state and a batch of zero rows are skipped:
\* the step that reads one leaves line_count, lines_vec, the frame origin,
\* the frame buffers, the carry, the events delivered and the position of
\* the thread as they were, so that the next batch meets the state it would
\* have met without the item; batch_readout_count grows, by one, only with
\* an extracted batch; and the end of the stream ends the read loop.
C21_SkippedItems ==
    [][/\ (ReadStep /\ SkippedItem(last_item')) =>
            /\ UNCHANGED <<appVars, frame_buffers, events_after_newframe,
                           events_iter, n_supplied, data_stream, pc,
                           loopVars, frameGhost, outcome>>
            /\ batch_readout_count' =
                   IF last_item'.kind = "Some" THEN batch_readout_count + 1
                                               ELSE batch_readout_count
       /\ batch_readout_count' # batch_readout_count =>
            /\ batch_readout_count' = batch_readout_count + 1
            /\ last_item'.kind = "Some"
            /\ n_supplied' = n_supplied + last_item'.rows
       /\ (ReadStep /\ last_item'.kind = "None") =>
            /\ data_stream' = "finished"
            /\ pc' # pc
            /\ UNCHANGED <<batch_readout_count, n_supplied>>]_vars

\* Within a frame with a line counted and photons in the buffers a Waiting
\* state was read and skipped, and a batch is still to come.
C21_Witness ==
    /\ pc = "pop_loop"
    /\ last_item.kind = "Waiting"
    /\ line_count > 0
    /\ frame_buffers[MergeIdx] # {}
    /\ batch_readout_count < MaxBatches
    /\ data_stream = "open"

\* C22: a snapshot sent to the serializer is a copy of the frame buffers
\* taken before the render of the same iteration: between the send and the
\* render the newest snapshot equals the frame buffers; the render empties
\* the buffers and leaves every snapshot as it was; and no step of any
\* thread ever changes a snapshot that was sent.
C22_SnapshotIsCopyBeforeRender ==
    /\ [](pc = "render" =>
            /\ Delivery # <<>>
            /\ Delivery[Len(Delivery)].fb = frame_buffers)
    /\ [][/\ Len(Delivery') >= Len(Delivery)
          /\ \A i \in 1..Len(Delivery) : Delivery'[i] = Delivery[i]
          /\ (pc = "render" /\ pc' # "render") =>
                /\ Delivery' = Delivery
                /\ \A c \in 0..MergeIdx : frame_buffers'[c] = {}]_vars

\* A snapshot with voxels in its merged map was sent, the render has drained
\* the buffers, and the photons of a later frame have entered them.
C22_Witness ==
    /\ Len(Delivery) = 1
    /\ Delivery[1].fb[MergeIdx] # {}
    /\ n_renders = 1
    /\ frame_buffers[MergeIdx] # {}
    /\ frame_buffers # Delivery[1].fb
    /\ pc = "drain"

\* The thread is inside an iteration of the outer loop, after its
\* evaluation of should_close.
InIteration ==
    \/ pc \in {"drain", "pop_loop", "cadence", "render", "send_panic"}
    \/ pc \in AdvPcs /\ adv_caller = "drain"

\* C23: in a render step display_point is called exactly once for every
\* voxel of the merged map, which is the merged map of the snapshot sent in
\* the same iteration, and the single render() follows these calls; after
\* the step all the maps are empty; and should_close has been evaluated
\* once for every iteration of the outer loop begun.
C23_RenderStep ==
    /\ n_renders = 0 => calls = <<>>
    /\ n_renders > 0 =>
          LET merged == queue[n_renders][MergeIdx]
              n == Len(calls)
          IN  /\ n = Cardinality(merged) + 1
              /\ calls[n] = RenderCall
              /\ \A i \in 1..(n - 1) : calls[i].op = "display_point"
              /\ \A v \in merged :
                    Cardinality({i \in 1..(n - 1) : calls[i].p = v}) = 1
    /\ (pc \in {"loop_head", "shutdown"} /\ ~fresh
           /\ in_cadence(frame_number - 1, rolling_avg)) =>
          \A c \in 0..MergeIdx : frame_buffers[c] = {}
    /\ InIteration => n_should_close = frame_number
    /\ pc = "loop_head" => n_should_close = frame_number - 1
    /\ (pc \in AdvPcs \cup {"spawn"} /\ adv_caller = "init") =>
          n_should_close = 0

\* The render step of the second iteration, the first of the cadence, has
\* displayed a voxel and then rendered, and has left the maps empty.
C23_Witness ==
    /\ n_renders = 1
    /\ Len(calls) = 2
    /\ calls[1].op = "display_point"
    /\ pc = "loop_head"
    /\ n_should_close = 2
    /\ frame_number = 3
    /\ frame_buffers = EmptyBuffers

\* The acquisitions that have opened the source.
Opened == {i \in 1..Len(acquisitions) : acquisitions[i] = "opened"}

StreamOf(batch) ==
    EventStream(matrix_from_numpy(batch), matrix_from_numpy(batch),
                matrix_from_numpy(batch), matrix_from_numpy(batch))

\* C25: the producer sends one EventStream for each batch the tagger
\* publishes, in the order of publication: whenever it is at the head of
\* its loop with the begin_time of the tagger's batch already seen, the
\* streams sent are the streams of the batches published, one for one, in
\* order.
C25_OneStreamPerBatch ==
    (prod_pc = "begin_time"
        /\ previous_begin_time = CurrentBatch.begin_time) =>
        ffi_sent = [i \in 1..Len(tagger) |-> StreamOf(tagger[i])]

C27_LineCountBounded ==
    /\ rows_per_frame >= 1
    /\ line_count \in 0..rows_per_frame

\* A line event has raised the line count to rows_per_frame = 2 in a frame
\* that a photon beyond the frame and a re-synchronisation on a line signal
\* had opened.
C27_Witness ==
    /\ Dispatched
    /\ ValidOn(last_event, "Line")
    /\ outcome = NoOp
    /\ rows_per_frame = MaxRows
    /\ line_count = rows_per_frame
    /\ prev.st.line_count = rows_per_frame - 1
    /\ opened_by = "sync_line"
    /\ frame_number > 1

\* C28: lines_vec holds line_count or line_count - 1 times in every state:
\* line_count of them in a frame opened by handle_line_event, by
\* handle_frame_event or by a frame signal found by
\* advance_till_first_frame_line, and at the start; line_count - 1 in a
\* frame opened by advance_till_first_frame_line on a line signal, which is
\* counted and not stored; and a line that is counted is stored after the
\* times stored before it.
C28_LinesVecLength ==
    /\ Len(lines_vec) \in {line_count, line_count - 1}
    /\ opened_by \in {"line", "frame", "sync_frame"} =>
          Len(lines_vec) = line_count
    /\ (opened_by = "none" /\ last_op = "none") => Len(lines_vec) = line_count
    /\ opened_by = "sync_line" => Len(lines_vec) = line_count - 1
    /\ (Dispatched /\ ValidOn(last_event, "Line") /\ outcome = NoOp) =>
          lines_vec = Append(prev.st.lines_vec, last_event.time)

\* In a frame opened by advance_till_first_frame_line on a line signal a
\* second line, at the latest time, was counted and stored, and later
\* events were taken: two lines counted, one time stored.
C28_Witness ==
    /\ opened_by = "sync_line"
    /\ line_count = 2
    /\ lines_vec = <<MaxTime>>
    /\ Dispatched
    /\ ~ValidOn(last_event, "Line")

\* The last step has taken the event of a frame boundary: a line or frame
\* signal that has opened a frame, or the one found by
\* advance_till_first_frame_line.
AtBoundary ==
    /\ fresh
    /\ \/ last_op = "sync"
       \/ /\ last_op = "dispatch"
          /\ outcome.kind \in {"LineNewFrame", "FrameNewFrame"}

\* C29: the frame origin is set to the time of every frame boundary event
\* and changes in no other step, so that it is the time of the most recent
\* boundary event; it decreases only by a boundary event whose time is
\* earlier than the origin, that is, earlier than the boundary event
\* before it.
C29_FrameOriginAtBoundary ==
    /\ [](AtBoundary => frame_origin = last_event.time)
    /\ [][/\ frame_origin' # frame_origin => AtBoundary'
          /\ frame_origin' < frame_origin => last_event'.time < frame_origin
         ]_vars

\* A frame signal at time 1 has moved the frame origin from the time 0 of
\* the line signal advance_till_first_frame_line had found.
C29_Witness ==
    /\ AtBoundary
    /\ outcome = FrameNewFrame
    /\ frame_origin = MaxTime
    /\ prev.st.frame_origin = 0
    /\ prev.opened_by = "sync_line"

\* C30: a snapshot is sent only by an iteration whose frame_number is a
\* multiple of rolling_avg, as the clone of the frame buffers of that
\* moment, and never after the loop: from the end of the loop on nothing
\* is sent and the frame buffers stay as they are, so that, when the call
\* has returned, the serializer has received the snapshots of the cadence
\* only and what the frame buffers hold since the last of them is in none.
C30_NoSnapshotAtShutdown ==
    /\ [][Delivery' # Delivery =>
            /\ pc = "cadence"
            /\ in_cadence(frame_number, rolling_avg)
            /\ Delivery' =
                  Append(Delivery, Snapshot(frame_number, frame_buffers))
         ]_vars
    /\ [][(pc \in {"shutdown", "join", "done"}) =>
            (queue' = queue /\ frame_buffers' = frame_buffers)]_vars
    /\ [](pc = "done" =>
            /\ chan = <<>>
            /\ Len(serialized) = (frame_number - 1) \div rolling_avg
            /\ \A i \in 1..Len(serialized) :
                  serialized[i].frame = i * rolling_avg)

\* With a rolling average of 2 the loop has ended at the end of the source
\* in its third iteration: the call has returned, the serializer has the
\* snapshot of the second iteration only, and the photon of the third
\* iteration is in the frame buffers.
C30_Witness ==
    /\ pc = "done"
    /\ ~should_close
    /\ rolling_avg = 2
    /\ frame_number = 4
    /\ Len(serialized) = 1
    /\ frame_buffers[MergeIdx] # {}

====
